---- MODULE Spec2Model ----
(***************************************************************************)
(* Model of the gazetteer phrase trie (src/src/tree.rs): StringTree with   *)
(* insert, traverse and join, the tokenizer split_with_indices, and the    *)
(* parallel window scan of the test drivers.                               *)
(*                                                                         *)
(* Strings are sequences of code points, so that String::cmp is the        *)
(* lexicographic order and to_lowercase is a real conversion.  Indices     *)
(* are 0-based as in the source; TLA+ sequences are 1-based, hence the     *)
(* "+ 1" at every subscript.                                               *)
(***************************************************************************)
EXTENDS Integers, Sequences, FiniteSets, TLC

VARIABLES
    tree,       \* the StringTree under test (self)
    second,     \* the second StringTree, the argument of join
    panicked,   \* TRUE once an index was read out of bounds (the thread unwinds)
    joined,     \* TRUE once join has been applied to tree
    op,         \* the operation that produced this state
    argPath,    \* the token path of the last traverse
    ret,        \* the bool returned by the last insert
    hit,        \* history: the last insert's path ended at a node with a non-empty uri
    res,        \* the Result returned by the last traverse
    inserted,   \* history: <<lower-cased path, uri>> of inserts that returned true, uri non-empty
    text,       \* the input text of the tokenizer / scan
    offsets,    \* split_with_indices: offsets
    slices,     \* split_with_indices: slices
    max_len,    \* window width of the scan
    collected,  \* the Vec the per-window results are collected into
    order,      \* the windows (0-based) whose tasks have finished, in completion order
    lookups,    \* history: <<start index, window>> handed to traverse
    output,     \* the lines printed by the zip over offsets.windows and results
    pc          \* position of the tokenizer / scan driver

trieVars == <<tree, second, panicked, joined>>
callVars == <<op, argPath, ret, hit, res, inserted>>
scanVars == <<text, offsets, slices, max_len, collected, order, lookups, output, pc>>
vars == <<trieVars, callVars, scanVars>>

----------------------------------------------------------------------------
(* Bounds of the model *)

MaxPath == 2
MaxNodes == 3
MaxJoinNodes == 4
MaxText == 4
MaxWords == 4
MaxWin == 3

----------------------------------------------------------------------------
(* Strings *)

\* the delimiters of the tokenizer: space , . : " ( )
Delimiters == {32, 44, 46, 58, 34, 40, 41}

to_lowercase_char(c) == IF c \in 65..90 THEN c + 32 ELSE c

to_lowercase(s) == [i \in 1..Len(s) |-> to_lowercase_char(s[i])]

LowerPath(p) == [i \in 1..Len(p) |-> to_lowercase(p[i])]

RECURSIVE cmp(_, _)
cmp(x, y) ==
    IF x = <<>> /\ y = <<>> THEN "Equal"
    ELSE IF x = <<>> THEN "Less"
    ELSE IF y = <<>> THEN "Greater"
    ELSE IF Head(x) < Head(y) THEN "Less"
    ELSE IF Head(x) > Head(y) THEN "Greater"
    ELSE cmp(Tail(x), Tail(y))

\* Vec::insert(idx, x), idx 0-based and idx <= len
VecInsert(v, idx, x) == SubSeq(v, 1, idx) \o <<x>> \o SubSeq(v, idx + 1, Len(v))

Range(s) == {s[i] : i \in 1..Len(s)}

Min(x, y) == IF x < y THEN x ELSE y

----------------------------------------------------------------------------
(* StringTree *)

RootValue == <<60, 82, 79, 79, 84, 62>>

root == [value |-> RootValue, uri |-> "", children |-> <<>>]

create(value, uri) == [value |-> value, uri |-> uri, children |-> <<>>]

\* slice::binary_search_by as called through binary_search_by_key(&value,
\* get_value): Ok(idx) is [found |-> TRUE], Err(idx) is [found |-> FALSE].
\* The bisection is the one of the standard library; on a strictly ascending
\* list its result is fixed by the contract of binary_search.
RECURSIVE binary_search_loop(_, _, _, _, _)
binary_search_loop(children, key, left, right, size) ==
    IF left < right
    THEN LET mid == left + (size \div 2)
             c == cmp(children[mid + 1].value, key)
         IN  IF c = "Less" THEN binary_search_loop(children, key, mid + 1, right, right - (mid + 1))
             ELSE IF c = "Greater" THEN binary_search_loop(children, key, left, mid, mid - left)
             ELSE [found |-> TRUE, idx |-> mid]
    ELSE [found |-> FALSE, idx |-> left]

binary_search_by_key(children, key) ==
    binary_search_loop(children, key, 0, Len(children), Len(children))

\* variant: the key is not lower-cased
insert_key_raw(values) == Head(values)

insert_key(values) == to_lowercase(Head(values))

\* variant: the identifier is overwritten
set_uri_overwrite(child, uri) == [node |-> [child EXCEPT !.uri = uri], ret |-> TRUE]

set_uri(child, uri) ==
    IF child.uri = ""
    THEN [node |-> [child EXCEPT !.uri = uri], ret |-> TRUE]
    ELSE [node |-> child, ret |-> FALSE]

RECURSIVE insert(_, _, _)
insert(self, values, uri) ==
    LET value == insert_key(values)
        rest == Tail(values)
        bs == binary_search_by_key(self.children, value)
    IN  IF bs.found
        THEN IF rest = <<>>
             THEN LET r == set_uri(self.children[bs.idx + 1], uri)
                  IN  [tree |-> [self EXCEPT !.children[bs.idx + 1] = r.node], ret |-> r.ret]
             ELSE LET r == insert(self.children[bs.idx + 1], rest, uri)
                  IN  [tree |-> [self EXCEPT !.children[bs.idx + 1] = r.tree], ret |-> r.ret]
        ELSE IF rest = <<>>
             THEN [tree |-> [self EXCEPT !.children = VecInsert(@, bs.idx, create(value, uri))],
                   ret |-> TRUE]
             ELSE LET r == insert(create(value, ""), rest, uri)
                  IN  [tree |-> [self EXCEPT !.children = VecInsert(@, bs.idx, r.tree)],
                       ret |-> r.ret]

\* variant: path nodes are reported too
push_result_always(results, child, buffer) == Append(results, <<child.uri, buffer>>)

push_result(results, child, buffer) ==
    IF child.uri # "" THEN Append(results, <<child.uri, buffer>>) ELSE results

RECURSIVE _traverse(_, _, _, _)
_traverse(self, values, matched_string_buffer, results) ==
    LET value == Head(values)
        rest == Tail(values)
        bs == binary_search_by_key(self.children, to_lowercase(value))
    IN  IF bs.found
        THEN LET child == self.children[bs.idx + 1]
                 buffer == Append(matched_string_buffer, value)
                 pushed == push_result(results, child, buffer)
             IN  IF rest # <<>> THEN _traverse(child, rest, buffer, pushed) ELSE pushed
        ELSE results

Ok(vec) == [ok |-> TRUE, vec |-> vec]

Err == [ok |-> FALSE, vec |-> <<>>]

\* variant: an empty result list is returned as Ok
traverse_always_ok(self, values) == Ok(_traverse(self, values, <<>>, <<>>))

traverse(self, values) ==
    LET vec == _traverse(self, values, <<>>, <<>>)
    IN  IF Len(vec) > 0 THEN Ok(vec) ELSE Err

\* join returns the tree as the call leaves it and whether it panicked on an
\* index out of bounds (children[s_index] or other.children[o_index])
RECURSIVE join(_, _)
RECURSIVE join_loop(_, _, _, _)
join_loop(children, others, s_index, o_index) ==
    IF ~(o_index < Len(others))
    THEN [children |-> children, panic |-> FALSE]
    ELSE LET push == s_index >= Len(children)
             pushed == IF push THEN Append(children, others[o_index + 1]) ELSE children
             o_next == IF push THEN o_index + 1 ELSE o_index
         IN  IF s_index >= Len(pushed) \/ o_next >= Len(others)
             THEN [children |-> pushed, panic |-> TRUE]
             ELSE LET ord == cmp(pushed[s_index + 1].value, others[o_next + 1].value)
                  IN  IF ord = "Less"
                      THEN join_loop(VecInsert(pushed, s_index, others[o_next + 1]),
                                     others, s_index, o_next + 1)
                      ELSE IF ord = "Greater"
                      THEN join_loop(pushed, others, s_index + 1, o_next)
                      ELSE LET sub == join(pushed[s_index + 1], others[o_next + 1])
                               merged == [pushed EXCEPT ![s_index + 1] = sub.tree]
                           IN  IF sub.panic
                               THEN [children |-> merged, panic |-> TRUE]
                               ELSE join_loop(merged, others, s_index, o_next + 1)

join(self, other) ==
    LET r == join_loop(self.children, other.children, 0, 0)
    IN  [tree |-> [self EXCEPT !.children = r.children], panic |-> r.panic]

----------------------------------------------------------------------------
(* Tokenizer and window scan.  The characters of the model are ASCII, so a *)
(* byte offset is a character index and every delimiter match has length 1.*)

\* str::match_indices over the delimiter set: the 0-based delimiter positions
RECURSIVE match_indices(_, _)
match_indices(s, from) ==
    IF from > Len(s) THEN <<>>
    ELSE (IF s[from] \in Delimiters THEN <<from - 1>> ELSE <<>>) \o match_indices(s, from + 1)

RECURSIVE split_loop(_, _, _, _, _)
split_loop(s, indices, last, offs, slcs) ==
    IF indices = <<>>
    THEN [offsets |-> offs, slices |-> slcs]
    ELSE LET idx == Head(indices)
             slice == SubSeq(s, last + 1, idx)
         IN  split_loop(s, Tail(indices), idx + 1,
                        Append(offs, <<last, last + Len(slice)>>), Append(slcs, slice))

split_with_indices(s) == split_loop(s, match_indices(s, 1), 0, <<>>, <<>>)

\* slice::windows(size) and par_windows(size), size >= 1: the number of
\* windows, and window k (0-based)
num_windows(v, size) == IF Len(v) >= size THEN Len(v) - size + 1 ELSE 0

window(v, size, k) == SubSeq(v, k + 1, k + size)

\* the slot of a window whose task has not finished
Pending == [ok |-> FALSE, vec |-> <<"pending">>]

FirstPending(vec) == CHOOSE i \in 1..Len(vec) : vec[i] = Pending /\ \A j \in 1..(i - 1) : vec[j] # Pending

\* variant: results are appended as the tasks finish
collect_in_completion_order(vec, k, r) == [vec EXCEPT ![FirstPending(vec)] = r]

\* collect of an indexed parallel iterator: the result of window k (0-based)
\* is written at position k
collect(vec, k, r) == [vec EXCEPT ![k + 1] = r]

\* the lines printed for one window: (matched tokens, start, end, uri)
print_window(offs, r) ==
    IF r.ok
    THEN [i \in 1..Len(r.vec) |->
             [tokens |-> r.vec[i][2],
              start |-> offs[1][1],
              end |-> offs[Len(r.vec[i][2])][2],
              uri |-> r.vec[i][1]]]
    ELSE <<>>

\* offsets.windows(max_len).zip(results).for_each(...)
RECURSIVE zip_print(_, _, _, _)
zip_print(offs, vec, size, k) ==
    IF k >= Min(num_windows(offs, size), Len(vec)) THEN <<>>
    ELSE print_window(window(offs, size, k), vec[k + 1]) \o zip_print(offs, vec, size, k + 1)

----------------------------------------------------------------------------
(* Vocabulary of the trie properties: the trie read as a map from          *)
(* lower-cased paths to nodes, without binary search.                      *)

HasChild(node, v) == \E i \in 1..Len(node.children) : node.children[i].value = v

ChildOf(node, v) ==
    node.children[CHOOSE i \in 1..Len(node.children) : node.children[i].value = v]

RECURSIVE IsPath(_, _)
IsPath(node, lp) ==
    IF lp = <<>> THEN TRUE
    ELSE HasChild(node, Head(lp)) /\ IsPath(ChildOf(node, Head(lp)), Tail(lp))

RECURSIVE NodeAt(_, _)
NodeAt(node, lp) == IF lp = <<>> THEN node ELSE NodeAt(ChildOf(node, Head(lp)), Tail(lp))

\* the identifier at the end of the lower-cased path lp; "" when lp is no
\* path of the trie or its end node is a pure path node
TerminalUri(t, lp) == IF IsPath(t, lp) THEN NodeAt(t, lp).uri ELSE ""

\* every children list strictly ascending by value, at every node
RECURSIVE Ascending(_)
Ascending(node) ==
    /\ \A i \in 1..(Len(node.children) - 1) :
           cmp(node.children[i].value, node.children[i + 1].value) = "Less"
    /\ \A i \in 1..Len(node.children) : Ascending(node.children[i])

\* the identifier lookup reports for the whole path p; "" when it reports none
Reported(t, p) ==
    LET r == traverse(t, p)
    IN  IF r.ok /\ r.vec[Len(r.vec)][2] = p THEN r.vec[Len(r.vec)][1] ELSE ""

Prefix(q, k) == SubSeq(q, 1, k)

\* one pair per terminal prefix of q among its first k tokens, shortest first
RECURSIVE TerminalPrefixes(_, _, _)
TerminalPrefixes(t, q, k) ==
    IF k = 0 THEN <<>>
    ELSE LET shorter == TerminalPrefixes(t, q, k - 1)
             u == TerminalUri(t, LowerPath(Prefix(q, k)))
         IN  IF u # "" THEN Append(shorter, <<u, Prefix(q, k)>>) ELSE shorter

----------------------------------------------------------------------------
(* Inputs *)

\* tokens "a", "A", "b"
Tokens == {<<97>>, <<65>>, <<98>>}

Uris == {"", "u1", "u2"}

RECURSIVE PathsOfLen(_)
PathsOfLen(n) ==
    IF n = 0 THEN {<<>>}
    ELSE {Append(p, t) : p \in PathsOfLen(n - 1), t \in Tokens}

\* non-empty token paths: insert and _traverse unwrap the first pop_front
Paths == UNION {PathsOfLen(n) : n \in 1..MaxPath}

RECURSIVE NodeCount(_)
RECURSIVE NodeCountSeq(_)
NodeCount(node) == 1 + NodeCountSeq(node.children)

NodeCountSeq(cs) == IF cs = <<>> THEN 0 ELSE NodeCount(Head(cs)) + NodeCountSeq(Tail(cs))

\* the corpus is bounded: the trie holds at most MaxNodes nodes below the root
Fits(t) == NodeCount(t) <= MaxNodes + 1

\* the corpora merged by join: lower-cased phrases with identifiers
JoinPaths == {LowerPath(p) : p \in Paths}

JoinUris == Uris \ {""}

\* the two corpora hold at most MaxJoinNodes nodes below their roots together
FitsBoth(t1, t2) == NodeCount(t1) + NodeCount(t2) <= MaxJoinNodes + 2

\* res while no traverse has returned
NoCall == [ok |-> FALSE, vec |-> <<"none">>]

\* characters of the tokenizer texts: "a", "b", space, comma
Alphabet == {97, 98, 32, 44}

RECURSIVE TextsOfLen(_)
TextsOfLen(n) ==
    IF n = 0 THEN {<<>>}
    ELSE {Append(t, c) : t \in TextsOfLen(n - 1), c \in Alphabet}

Texts == UNION {TextsOfLen(n) : n \in 0..MaxText}

\* words of the scanned texts: "a", "B"
Words == {<<97>>, <<66>>}

RECURSIVE WordSeqsOfLen(_)
WordSeqsOfLen(n) ==
    IF n = 0 THEN {<<>>}
    ELSE {Append(ws, w) : ws \in WordSeqsOfLen(n - 1), w \in Words}

\* the words separated by single spaces, with or without a final space
RECURSIVE JoinWords(_, _)
JoinWords(ws, trailing) ==
    IF ws = <<>> THEN <<>>
    ELSE IF Len(ws) = 1 THEN Head(ws) \o (IF trailing THEN <<32>> ELSE <<>>)
    ELSE Head(ws) \o <<32>> \o JoinWords(Tail(ws), trailing)

ScanTexts ==
    {JoinWords(ws, tr) : ws \in UNION {WordSeqsOfLen(n) : n \in 1..MaxWords}, tr \in BOOLEAN}

\* the sample gazetteer: a phrase and its one-token prefix, as in test_sample
SampleTree ==
    LET t1 == insert(root, <<<<97>>, <<98>>>>, "uri:phrase").tree
    IN  insert(t1, <<<<97>>>>, "uri:example").tree

----------------------------------------------------------------------------
(* Trie built by inserts, then queried by traverse.  The index is built at *)
(* load time and read-only once lookups start; traverse borrows the trie   *)
(* immutably, so a behaviour ends with one lookup on the trie built so far.*)

TrieIdle ==
    /\ second = root
    /\ panicked = FALSE
    /\ joined = FALSE

ScanIdle ==
    /\ text = <<>>
    /\ offsets = <<>>
    /\ slices = <<>>
    /\ max_len = 1
    /\ collected = <<>>
    /\ order = <<>>
    /\ lookups = {}
    /\ output = <<>>
    /\ pc = "idle"

CallIdle ==
    /\ op = "new"
    /\ argPath = <<>>
    /\ ret = FALSE
    /\ hit = FALSE
    /\ res = NoCall
    /\ inserted = {}

Init ==
    /\ tree = root
    /\ TrieIdle
    /\ CallIdle
    /\ ScanIdle

Insert(p, uri) ==
    /\ op # "traverse"
    /\ LET r == insert(tree, p, uri)
       IN  /\ Fits(r.tree)
           /\ tree' = r.tree
           /\ ret' = r.ret
           /\ inserted' = IF r.ret /\ uri # ""
                          THEN inserted \cup {<<LowerPath(p), uri>>}
                          ELSE inserted
    /\ hit' = (TerminalUri(tree, LowerPath(p)) # "")
    /\ op' = "insert"
    /\ argPath' = <<>>
    /\ res' = NoCall
    /\ UNCHANGED <<second, panicked, joined, scanVars>>

Traverse(q) ==
    /\ op # "traverse"
    /\ res' = traverse(tree, q)
    /\ op' = "traverse"
    /\ argPath' = q
    /\ ret' = FALSE
    /\ hit' = FALSE
    /\ UNCHANGED <<trieVars, inserted, scanVars>>

Next ==
    \/ \E p \in Paths, uri \in Uris : Insert(p, uri)
    \/ \E q \in Paths : Traverse(q)

Spec == Init /\ [][Next]_vars

----------------------------------------------------------------------------
(* Properties of insert and traverse (specification Spec) *)

\* C2: insert/lookup round trip. Once insert(p, id) with a non-empty id has
\* returned true, a traverse of p in any letter case, after any later
\* inserts, returns Ok with the pair (id, the tokens as queried).
C2_RoundTrip ==
    op = "traverse" =>
        \A e \in inserted :
            LowerPath(argPath) = e[1] =>
                res.ok /\ <<e[2], argPath>> \in Range(res.vec)

C2_Witness ==
    /\ op = "traverse"
    /\ Cardinality(inserted) >= 2
    /\ Len(argPath) >= 2
    /\ \E e \in inserted : LowerPath(argPath) = e[1] /\ argPath # e[1]
    /\ res.ok

\* C3: first write wins. An insert whose path ends at a node that already
\* carries a non-empty identifier returns false and leaves the whole trie
\* as it was.
C3_FirstWriteWins ==
    [][(op' = "insert" /\ hit') =>
          /\ ret' = FALSE
          /\ tree' = tree
          /\ \A p \in Paths :
                 TerminalUri(tree', LowerPath(p)) = TerminalUri(tree, LowerPath(p))]_vars

C3_Witness ==
    /\ op = "insert"
    /\ hit
    /\ ret = FALSE
    /\ inserted # {}

\* C5: traverse yields, shortest prefix first, exactly one pair
\* (identifier, first k tokens of q) for every k whose lower-cased prefix is
\* a path of the trie ending at a node with a non-empty identifier, and
\* nothing beyond the first token without a matching child.
C5_TerminalPrefixes ==
    op = "traverse" => res.vec = TerminalPrefixes(tree, argPath, Len(argPath))

C5_Witness ==
    /\ op = "traverse"
    /\ Len(res.vec) >= 2

\* C6 as stated: traverse returns Err if the first token has no child under
\* the root, and Ok with the pairs otherwise.
C6_ErrIffFirstTokenMisses ==
    op = "traverse" =>
        (res.ok <=> HasChild(tree, to_lowercase(argPath[1])))

\* C6 as amended: traverse returns Err exactly when no prefix of the path
\* ends at a node with a non-empty identifier, which covers a first token
\* without a child; otherwise it returns Ok with the non-empty pair list.
C6_ErrIffNoTerminalPrefix ==
    op = "traverse" =>
        /\ ~res.ok <=> (\A k \in 1..Len(argPath) :
                           TerminalUri(tree, LowerPath(Prefix(argPath, k))) = "")
        /\ ~HasChild(tree, to_lowercase(argPath[1])) => ~res.ok
        /\ res.ok => res.vec # <<>>

C6_Witness ==
    /\ op = "traverse"
    /\ HasChild(tree, to_lowercase(argPath[1]))
    /\ ~res.ok

----------------------------------------------------------------------------
(* Two tries built by inserts and merged by join *)

InsertSelf(p, uri) ==
    /\ ~panicked
    /\ LET r == insert(tree, p, uri)
       IN  /\ FitsBoth(r.tree, second)
           /\ tree' = r.tree
           /\ ret' = r.ret
    /\ op' = "insert"
    /\ UNCHANGED <<second, panicked, joined, argPath, hit, res, inserted, scanVars>>

InsertOther(p, uri) ==
    /\ ~panicked
    /\ LET r == insert(second, p, uri)
       IN  /\ FitsBoth(tree, r.tree)
           /\ second' = r.tree
           /\ ret' = r.ret
    /\ op' = "insert_other"
    /\ UNCHANGED <<tree, panicked, joined, argPath, hit, res, inserted, scanVars>>

Join ==
    /\ ~panicked
    /\ FitsBoth(tree, second)
    /\ LET r == join(tree, second)
       IN  /\ tree' = r.tree
           /\ panicked' = r.panic
    /\ joined' = TRUE
    /\ op' = "join"
    /\ ret' = FALSE
    /\ UNCHANGED <<second, argPath, hit, res, inserted, scanVars>>

NextJoin ==
    \/ \E p \in JoinPaths, uri \in JoinUris : InsertSelf(p, uri)
    \/ \E p \in JoinPaths, uri \in JoinUris : InsertOther(p, uri)
    \/ Join

SpecJoin == Init /\ [][NextJoin]_vars

----------------------------------------------------------------------------
(* Properties of join (specification SpecJoin) *)

\* C1: after any sequence of inserts and joins, every node's children list
\* is strictly ascending by value (no duplicate, binary search valid).
C1_ChildrenAscending == ~panicked => (Ascending(tree) /\ Ascending(second))

\* C4: joining two tries built by inserts gives the union, first trie wins:
\* lookup reports a phrase after the join iff it was terminal in either
\* trie, with the first trie's identifier when it had one and the second
\* trie's identifier otherwise.
C4_JoinIsUnion ==
    [][(op' = "join" /\ ~joined /\ ~panicked') =>
          \A p \in JoinPaths :
              Reported(tree', p) =
                  IF Reported(tree, p) # "" THEN Reported(tree, p) ELSE Reported(second, p)]_vars

\* C10: join of two tries with ascending children lists completes without
\* reading children[s_index] or other.children[o_index] out of bounds.
C10_JoinNeverPanics ==
    [][(op' = "join" /\ Ascending(tree) /\ Ascending(second)) => ~panicked']_vars

----------------------------------------------------------------------------
(* Tokenizer *)

InitTok ==
    /\ tree = root
    /\ TrieIdle
    /\ CallIdle
    /\ text \in Texts
    /\ offsets = <<>>
    /\ slices = <<>>
    /\ max_len = 1
    /\ collected = <<>>
    /\ order = <<>>
    /\ lookups = {}
    /\ output = <<>>
    /\ pc = "text"

Split ==
    /\ pc = "text"
    /\ LET r == split_with_indices(text)
       IN  /\ offsets' = r.offsets
           /\ slices' = r.slices
    /\ pc' = "split"
    /\ UNCHANGED <<trieVars, callVars, text, max_len, collected, order, lookups, output>>

NextTok == Split

SpecTok == InitTok /\ [][NextTok]_vars

----------------------------------------------------------------------------
(* Window scan: tokenize, look every window up in parallel, collect, and    *)
(* zip the results with the offsets                                         *)

InitScan ==
    /\ tree = SampleTree
    /\ TrieIdle
    /\ CallIdle
    /\ text \in ScanTexts
    /\ offsets = <<>>
    /\ slices = <<>>
    /\ max_len \in 1..MaxWin
    /\ collected = <<>>
    /\ order = <<>>
    /\ lookups = {}
    /\ output = <<>>
    /\ pc = "text"

\* slices.par_windows(max_len): one task per window
Spawn ==
    /\ pc = "split"
    /\ collected' = [k \in 1..num_windows(slices, max_len) |-> Pending]
    /\ pc' = "scan"
    /\ UNCHANGED <<trieVars, callVars, text, offsets, slices, max_len, order, lookups, output>>

\* the task of window k (0-based) runs traverse and its result is collected
Worker(k) ==
    /\ pc = "scan"
    /\ k \notin Range(order)
    /\ LET w == window(slices, max_len, k)
       IN  /\ collected' = collect(collected, k, traverse(tree, w))
           /\ lookups' = lookups \cup {<<k, w>>}
    /\ order' = Append(order, k)
    /\ UNCHANGED <<trieVars, callVars, text, offsets, slices, max_len, output, pc>>

Zip ==
    /\ pc = "scan"
    /\ Len(order) = Len(collected)
    /\ output' = zip_print(offsets, collected, max_len, 0)
    /\ pc' = "done"
    /\ UNCHANGED <<trieVars, callVars, text, offsets, slices, max_len, collected, order, lookups>>

NextScan ==
    \/ Split
    \/ Spawn
    \/ \E k \in 0..(num_windows(slices, max_len) - 1) : Worker(k)
    \/ Zip

SpecScan == InitScan /\ [][NextScan]_vars

----------------------------------------------------------------------------
(* Properties of the tokenizer and the scan *)

\* the maximal non-empty runs of non-delimiter characters of s, as
\* (start, end) offsets
Runs(s) ==
    {r \in (0..Len(s)) \X (0..Len(s)) :
        /\ r[1] < r[2]
        /\ \A i \in (r[1] + 1)..r[2] : s[i] \notin Delimiters
        /\ r[1] = 0 \/ s[r[1]] \in Delimiters
        /\ r[2] = Len(s) \/ s[r[2] + 1] \in Delimiters}

\* C7: split_with_indices returns, left to right, exactly the maximal
\* non-empty runs of non-delimiter characters, the final run included, no
\* empty token, with text[start..end] = token for every token.
C7_TokensAreMaximalRuns ==
    pc = "split" =>
        /\ Len(offsets) = Len(slices)
        /\ Len(slices) = Cardinality(Runs(text))
        /\ \A i \in 1..Len(slices) :
               /\ offsets[i] \in Runs(text)
               /\ slices[i] # <<>>
               /\ slices[i] = SubSeq(text, offsets[i][1] + 1, offsets[i][2])
        /\ \A i, j \in 1..Len(slices) : i < j => offsets[i][1] < offsets[j][1]

\* C8: the scan looks up one window for every start index i of the token
\* sequence, holding min(max_len, n - i) tokens.
C8_EveryStartLookedUp ==
    pc = "done" =>
        lookups = {<<i, SubSeq(slices, i + 1, Min(i + max_len, Len(slices)))>> :
                      i \in 0..(Len(slices) - 1)}

\* the lookups done one after the other, in window order
SequentialResults == [k \in 1..num_windows(slices, max_len) |->
                         traverse(tree, window(slices, max_len, k - 1))]

\* C9: whatever order the workers finish in, the collected results are in
\* ascending window order, and the result at position k is paired with the
\* offsets of window k.
C9_ResultsInWindowOrder ==
    /\ pc = "scan" => \A k \in Range(order) : collected[k + 1] = SequentialResults[k + 1]
    /\ pc = "done" =>
           /\ collected = SequentialResults
           /\ output = zip_print(offsets, SequentialResults, max_len, 0)
           /\ \A i, j \in 1..Len(output) : i < j => output[i].start <= output[j].start

C9_Witness ==
    /\ pc = "done"
    /\ \E i, j \in 1..Len(order) : i < j /\ order[i] > order[j]
    /\ \E i, j \in 1..Len(collected) : collected[i] # collected[j]
    /\ Len(output) >= 2
    /\ output[1].start < output[Len(output)].start

====
